---- MODULE Spec2Model ----
(***************************************************************************)
(* Extensions Essence API (src/main.py, src/schemas.py): the product CRUD   *)
(* handlers over the "product" collection, the identifier codec            *)
(* (_oid / _doc_with_id) and the two payment endpoints.                    *)
(*                                                                         *)
(* Strings are sequences of one-character strings.  A native identifier    *)
(* (bson ObjectId) is the sequence of its bytes.  A JSON object is a       *)
(* function from field names to values; an absent key is a key outside the *)
(* DOMAIN.                                                                 *)
(***************************************************************************)
EXTENDS Integers, Sequences, FiniteSets, TLC

VARIABLES product,      \* db["product"]: the stored documents, in insertion order
          nextId,       \* number of identifiers the store has generated so far
          last,         \* the last product request and its response
          written,      \* history: native id -> the body that last wrote it, how,
                        \*          and the id string its creation reported
          codec,        \* identifier codec run: input string and results
          env,          \* process environment (provider credentials, stripe package)
          pay           \* the last payment request and its response

vars == <<product, nextId, last, written, codec, env, pay>>

----------------------------------------------------------------------------
(* Bounds *)

\* Width of a native identifier in bytes (12 in bson), scaled down.
NBytes == 1
\* Number of documents the store is asked to insert in one run.
MaxCreates == 2

\* Length of the hexadecimal rendering of an identifier (24 in bson).
IdLen == 2 * NBytes

----------------------------------------------------------------------------
(* Identifier codec: bson.ObjectId as used by _oid and _doc_with_id *)

None == "None"
\* A find_one that matches nothing (Python None; falsy like an empty dict).
NoDoc == <<>>

HexDigits == <<"0","1","2","3","4","5","6","7","8","9","a","b","c","d","e","f">>
UpperDigits == <<"0","1","2","3","4","5","6","7","8","9","A","B","C","D","E","F">>
Whitespace == {" "}

IsHexChar(c) == \E v \in 1..16 : HexDigits[v] = c \/ UpperDigits[v] = c
HexVal(c) == (CHOOSE v \in 1..16 : HexDigits[v] = c \/ UpperDigits[v] = c) - 1

\* bytes.fromhex: ASCII whitespace between byte pairs is skipped; every byte
\* is two adjacent hexadecimal digits of either case; anything else fails.
RECURSIVE FromHex(_)
FromHex(s) ==
    IF s = <<>> THEN [ok |-> TRUE, bytes |-> <<>>]
    ELSE IF Head(s) \in Whitespace THEN FromHex(Tail(s))
    ELSE IF Len(s) < 2 \/ ~IsHexChar(s[1]) \/ ~IsHexChar(s[2])
         THEN [ok |-> FALSE, bytes |-> <<>>]
    ELSE LET r == FromHex(SubSeq(s, 3, Len(s)))
         IN  IF r.ok
             THEN [ok |-> TRUE, bytes |-> <<16 * HexVal(s[1]) + HexVal(s[2])>> \o r.bytes]
             ELSE r

\* ObjectId(id_str) for a str argument: the length must be IdLen and
\* bytes.fromhex must accept it, else InvalidId is raised.
ObjectId(id_str) ==
    IF Len(id_str) = IdLen THEN FromHex(id_str) ELSE [ok |-> FALSE, bytes |-> <<>>]

\* _oid: any exception of ObjectId becomes HTTPException(400, "Invalid id").
_oid(id_str) ==
    LET r == ObjectId(id_str)
    IN  IF r.ok THEN [ok |-> TRUE, oid |-> r.bytes, status |-> 200, detail |-> ""]
        ELSE [ok |-> FALSE, oid |-> <<>>, status |-> 400, detail |-> "Invalid id"]

\* Variant: the two digits of a byte in the wrong order.
RECURSIVE ObjectIdStr_swapped(_)
ObjectIdStr_swapped(oid) ==
    IF oid = <<>> THEN <<>>
    ELSE <<HexDigits[(Head(oid) % 16) + 1], HexDigits[(Head(oid) \div 16) + 1]>>
         \o ObjectIdStr_swapped(Tail(oid))

\* str(ObjectId): binascii.hexlify of the bytes, lower-case digits.
RECURSIVE ObjectIdStr(_)
ObjectIdStr(oid) ==
    IF oid = <<>> THEN <<>>
    ELSE <<HexDigits[(Head(oid) \div 16) + 1], HexDigits[(Head(oid) % 16) + 1]>>
         \o ObjectIdStr(Tail(oid))

\* Variant: "_id" is read, not popped.
_doc_with_id_keeps_native(doc) ==
    IF DOMAIN doc = {} THEN NoDoc
    ELSE ("id" :> ObjectIdStr(doc["_id"])) @@ doc

\* _doc_with_id: None for a falsy doc (None or empty), else the doc with "_id" popped and
\* "id" set to its string rendering.
_doc_with_id(doc) ==
    IF DOMAIN doc = {} THEN NoDoc
    ELSE LET rest == [k \in (DOMAIN doc) \ {"_id"} |-> doc[k]]
         IN  ("id" :> ObjectIdStr(doc["_id"])) @@ rest

----------------------------------------------------------------------------
(* schemas.Product *)

ProductFields ==
    {"title", "description", "price", "category", "subcategory",
     "images", "in_stock", "featured", "tags"}

\* Field defaults of class Product (None, default_factory=list, True, False).
FieldDefault(k) ==
    CASE k = "description" -> None
      [] k = "subcategory" -> None
      [] k = "images"      -> <<>>
      [] k = "in_stock"    -> TRUE
      [] k = "featured"    -> FALSE
      [] k = "tags"        -> <<>>

\* Request validation of a Product body: title, price and category are
\* required (Field(...)), price has ge=0.
ProductValid(body) ==
    /\ {"title", "price", "category"} \subseteq DOMAIN body
    /\ body["price"] >= 0

\* Product.model_dump(): exactly the declared fields, defaults filled in;
\* keys of the body that the model does not declare are dropped.
model_dump(body) ==
    [k \in ProductFields |-> IF k \in DOMAIN body THEN body[k] ELSE FieldDefault(k)]

----------------------------------------------------------------------------
(* The store driver, as the handlers use it *)

\* The n-th identifier the store generates: distinct for distinct n.
GenId(n) == [i \in 1..NBytes |-> IF i = NBytes THEN 160 + n ELSE 171]

Ids(coll) == {coll[i]["_id"] : i \in 1..Len(coll)}

\* find_one({"_id": oid}): the matching document or nothing.
find_one(coll, oid) ==
    IF oid \in Ids(coll)
    THEN coll[CHOOSE i \in 1..Len(coll) : coll[i]["_id"] = oid]
    ELSE NoDoc

\* Variant: upsert=True, a filter that matches nothing inserts the document.
update_one_upsert(coll, oid, data) ==
    IF oid \in Ids(coll)
    THEN [coll |-> [i \in 1..Len(coll) |->
                      IF coll[i]["_id"] = oid
                      THEN [k \in (DOMAIN coll[i]) \cup (DOMAIN data) |->
                              IF k \in DOMAIN data THEN data[k] ELSE coll[i][k]]
                      ELSE coll[i]],
          matched_count |-> 1]
    ELSE [coll |-> Append(coll, ("_id" :> oid) @@ data), matched_count |-> 0]

\* update_one({"_id": oid}, {"$set": data}) without upsert: the matched
\* document gets every key of data, other keys and documents stay.
update_one(coll, oid, data) ==
    [coll |-> [i \in 1..Len(coll) |->
                 IF coll[i]["_id"] = oid
                 THEN [k \in (DOMAIN coll[i]) \cup (DOMAIN data) |->
                         IF k \in DOMAIN data THEN data[k] ELSE coll[i][k]]
                 ELSE coll[i]],
     matched_count |-> IF oid \in Ids(coll) THEN 1 ELSE 0]

\* delete_one({"_id": oid}).
delete_one(coll, oid) ==
    [coll |-> SelectSeq(coll, LAMBDA d : d["_id"] # oid),
     deleted_count |-> IF oid \in Ids(coll) THEN 1 ELSE 0]

\* database.get_documents(collection, filter): the documents matching every
\* key/value equality of the filter, in insertion order.
get_documents(coll, q) ==
    SelectSeq(coll, LAMBDA d : \A k \in DOMAIN q : d[k] = q[k])

\* database.create_document(collection, model): inserts one document with a
\* store-assigned identifier and returns the identifier's string form.
create_document(coll, n, data) ==
    [coll |-> Append(coll, ("_id" :> GenId(n + 1)) @@ data),
     nextId |-> n + 1,
     id |-> ObjectIdStr(GenId(n + 1))]

----------------------------------------------------------------------------
(* Product handlers.  Each returns the collection after the call, the      *)
(* response (status, body) and the store calls it issued.                  *)

Resp(coll, status, body, calls) ==
    [coll |-> coll, status |-> status, body |-> body, calls |-> calls]

\* GET /products
list_products(coll, params) ==
    LET q1 == IF "category" \in DOMAIN params /\ params["category"] # ""
              THEN ("category" :> params["category"]) ELSE <<>>
        q  == IF "featured" \in DOMAIN params
              THEN ("featured" :> params["featured"]) @@ q1 ELSE q1
        items == get_documents(coll, q)
    IN  Resp(coll, 200, [i \in 1..Len(items) |-> _doc_with_id(items[i])], <<"find">>)

\* An ObjectId whose byte string is not NBytes long (only reachable through
\* the whitespace that bytes.fromhex skips) cannot equal a stored identifier;
\* the driver's call for it either matches nothing or fails.
Canonical(oid) == Len(oid) = NBytes

\* Variant: no `if not doc` test.
get_product_unchecked(coll, product_id, fault) ==
    LET o == _oid(product_id)
    IN  IF ~o.ok THEN Resp(coll, o.status, o.detail, <<>>)
        ELSE IF fault THEN Resp(coll, 500, "Internal Server Error", <<"find_one">>)
        ELSE Resp(coll, 200, _doc_with_id(find_one(coll, o.oid)), <<"find_one">>)

\* GET /products/{product_id}
get_product(coll, product_id, fault) ==
    LET o == _oid(product_id)
    IN  IF ~o.ok THEN Resp(coll, o.status, o.detail, <<>>)
        ELSE IF fault THEN Resp(coll, 500, "Internal Server Error", <<"find_one">>)
        ELSE LET doc == find_one(coll, o.oid)
             IN  IF DOMAIN doc = {}
                 THEN Resp(coll, 404, "Product not found", <<"find_one">>)
                 ELSE Resp(coll, 200, _doc_with_id(doc), <<"find_one">>)

\* POST /products (the body is validated before the handler runs: 422)
create_product(coll, n, body) ==
    IF ~ProductValid(body)
    THEN [coll |-> coll, nextId |-> n, status |-> 422, body |-> "Unprocessable Entity",
          calls |-> <<>>]
    ELSE LET c == create_document(coll, n, model_dump(body))
         IN  [coll |-> c.coll, nextId |-> c.nextId, status |-> 200,
              body |-> [id |-> c.id], calls |-> <<"insert_one">>]

\* Variant: a partial patch, $set of model_dump(exclude_unset=True).
update_product_patch(coll, product_id, body, fault) ==
    IF ~ProductValid(body) THEN Resp(coll, 422, "Unprocessable Entity", <<>>)
    ELSE LET data == [k \in ProductFields \cap DOMAIN body |-> body[k]]
             o == _oid(product_id)
         IN  IF ~o.ok THEN Resp(coll, o.status, o.detail, <<>>)
             ELSE IF fault THEN Resp(coll, 500, "Internal Server Error", <<"update_one">>)
             ELSE LET res == update_one(coll, o.oid, data)
                  IN  IF res.matched_count = 0
                      THEN Resp(res.coll, 404, "Product not found", <<"update_one">>)
                      ELSE Resp(res.coll, 200, [id |-> product_id, updated |-> TRUE],
                                <<"update_one">>)

\* PUT /products/{product_id}
update_product(coll, product_id, body, fault) ==
    IF ~ProductValid(body) THEN Resp(coll, 422, "Unprocessable Entity", <<>>)
    ELSE LET data == model_dump(body)
             o == _oid(product_id)
         IN  IF ~o.ok THEN Resp(coll, o.status, o.detail, <<>>)
             ELSE IF fault THEN Resp(coll, 500, "Internal Server Error", <<"update_one">>)
             ELSE LET res == update_one(coll, o.oid, data)
                  IN  IF res.matched_count = 0
                      THEN Resp(res.coll, 404, "Product not found", <<"update_one">>)
                      ELSE Resp(res.coll, 200, [id |-> product_id, updated |-> TRUE],
                                <<"update_one">>)

\* Variant: deleted_count is not looked at.
delete_product_unchecked(coll, product_id, fault) ==
    LET o == _oid(product_id)
    IN  IF ~o.ok THEN Resp(coll, o.status, o.detail, <<>>)
        ELSE IF fault THEN Resp(coll, 500, "Internal Server Error", <<"delete_one">>)
        ELSE Resp(delete_one(coll, o.oid).coll, 200, [deleted |-> TRUE],
                  <<"delete_one">>)

\* DELETE /products/{product_id}
delete_product(coll, product_id, fault) ==
    LET o == _oid(product_id)
    IN  IF ~o.ok THEN Resp(coll, o.status, o.detail, <<>>)
        ELSE IF fault THEN Resp(coll, 500, "Internal Server Error", <<"delete_one">>)
        ELSE LET res == delete_one(coll, o.oid)
             IN  IF res.deleted_count = 0
                 THEN Resp(res.coll, 404, "Product not found", <<"delete_one">>)
                 ELSE Resp(res.coll, 200, [deleted |-> TRUE], <<"delete_one">>)

----------------------------------------------------------------------------
(* Requests *)

\* Product bodies a client posts: one that leaves every optional field
\* out, one that sets them, one that sets featured to false and carries keys
\* the schema does not declare, and one that fails validation (negative
\* price).  Image lists are left empty.
ProductBodies ==
    { [title |-> "Box Braids", price |-> 25, category |-> ""],
      [title |-> "Curly Crochet", price |-> 0, category |-> "crochet",
       featured |-> TRUE, in_stock |-> FALSE, tags |-> <<"new">>,
       description |-> "soft"],
      ("_id" :> <<255>>) @@ [title |-> "Crochet Kit", price |-> 25, category |-> "crochet",
                             featured |-> FALSE, images |-> <<>>, id |-> "ffff"],
      [title |-> "Free Gift", price |-> 0 - 1, category |-> "crochet"] }

\* Query parameters of GET /products: each of category and featured is
\* optional; ?category= supplies the empty string.
ListParams ==
    { [k \in D |-> IF k = "category" THEN c ELSE f] :
        D \in SUBSET {"category", "featured"},
        c \in {"", "crochet"},
        f \in BOOLEAN }

AllSpaces == [i \in 1..IdLen |-> " "]
UpperCase(s) ==
    [i \in 1..Len(s) |->
        IF \E v \in 1..16 : HexDigits[v] = s[i]
        THEN UpperDigits[CHOOSE v \in 1..16 : HexDigits[v] = s[i]]
        ELSE s[i]]

\* Identifier strings a client puts in the path: the string form of every
\* identifier the store can have generated, one of them in upper case, a
\* well-formed identifier the store never generates, and malformed strings
\* (too short, a non-hex character, whitespace only).
ClientIds ==
    { ObjectIdStr(GenId(n)) : n \in 1..MaxCreates }
    \cup { UpperCase(ObjectIdStr(GenId(1))),
           ObjectIdStr([i \in 1..NBytes |-> 255]),
           SubSeq(ObjectIdStr(GenId(1)), 1, IdLen - 1),
           [ObjectIdStr(GenId(1)) EXCEPT ![1] = "g"],
           AllSpaces }

\* Outcomes of the driver call for an identifier string: a failure is
\* possible only for a non-canonical ObjectId.
Faults(id_str) ==
    IF _oid(id_str).ok /\ ~Canonical(_oid(id_str).oid) THEN BOOLEAN ELSE {FALSE}

----------------------------------------------------------------------------
(* State machine of the product endpoints *)

NoRequest == [op |-> "none", arg |-> <<>>, params |-> <<>>, again |-> FALSE,
              status |-> 0, body |-> <<>>, calls |-> <<>>]
CodecIdle == [s |-> <<>>, done |-> FALSE, ok |-> FALSE, oid |-> <<>>, str |-> <<>>]
NoEnv == [stripe_key |-> None, paystack_key |-> None, stripe_installed |-> TRUE]
NoPayment == [op |-> "none", amount |-> 0, contacted |-> FALSE, sent |-> <<>>,
              outcome |-> <<>>, kind |-> "none", status |-> 0, body |-> <<>>]

Init ==
    /\ product = <<>>
    /\ nextId = 0
    /\ last = NoRequest
    /\ written = <<>>
    /\ codec = CodecIdle
    /\ env = NoEnv
    /\ pay = NoPayment

\* History bit of a request: the request before it had the same operation
\* and path argument and was answered 200.
Again(op, arg) == last.op = op /\ last.arg = arg /\ last.status = 200

Without(f, x) == [k \in (DOMAIN f) \ {x} |-> f[k]]

ListProducts ==
    \E params \in ListParams :
        LET r == list_products(product, params)
        IN  /\ last' = [op |-> "list", arg |-> <<>>, params |-> params,
                        again |-> Again("list", <<>>),
                        status |-> r.status, body |-> r.body, calls |-> r.calls]
            /\ product' = r.coll
            /\ UNCHANGED <<nextId, written, codec, env, pay>>

GetProduct ==
    \E product_id \in ClientIds : \E fault \in Faults(product_id) :
        LET r == get_product(product, product_id, fault)
        IN  /\ last' = [op |-> "get", arg |-> product_id, params |-> <<>>,
                        again |-> Again("get", product_id),
                        status |-> r.status, body |-> r.body, calls |-> r.calls]
            /\ product' = r.coll
            /\ UNCHANGED <<nextId, written, codec, env, pay>>

CreateProduct ==
    \E body \in ProductBodies :
        LET r == create_product(product, nextId, body)
        IN  /\ nextId < MaxCreates
            /\ last' = [op |-> "create", arg |-> <<>>, params |-> <<>>,
                        again |-> Again("create", <<>>),
                        status |-> r.status, body |-> r.body, calls |-> r.calls]
            /\ product' = r.coll
            /\ nextId' = r.nextId
            /\ written' = IF r.status = 200
                          THEN (GenId(r.nextId) :> [by |-> "create", body |-> body,
                                                     id |-> r.body.id])
                               @@ written
                          ELSE written
            /\ UNCHANGED <<codec, env, pay>>

UpdateProduct ==
    \E product_id \in ClientIds, body \in ProductBodies :
      \E fault \in Faults(product_id) :
        LET r == update_product(product, product_id, body, fault)
        IN  /\ last' = [op |-> "update", arg |-> product_id, params |-> <<>>,
                        again |-> Again("update", product_id),
                        status |-> r.status, body |-> r.body, calls |-> r.calls]
            /\ product' = r.coll
            /\ written' = IF r.status = 200
                          THEN (_oid(product_id).oid :>
                                   [by |-> "update", body |-> body,
                                    id |-> written[_oid(product_id).oid].id])
                               @@ Without(written, _oid(product_id).oid)
                          ELSE written
            /\ UNCHANGED <<nextId, codec, env, pay>>

DeleteProduct ==
    \E product_id \in ClientIds : \E fault \in Faults(product_id) :
        LET r == delete_product(product, product_id, fault)
        IN  /\ last' = [op |-> "delete", arg |-> product_id, params |-> <<>>,
                        again |-> Again("delete", product_id),
                        status |-> r.status, body |-> r.body, calls |-> r.calls]
            /\ product' = r.coll
            /\ written' = IF r.status = 200
                          THEN Without(written, _oid(product_id).oid)
                          ELSE written
            /\ UNCHANGED <<nextId, codec, env, pay>>

Next ==
    \/ ListProducts
    \/ GetProduct
    \/ CreateProduct
    \/ UpdateProduct
    \/ DeleteProduct

Spec == Init /\ [][Next]_vars

----------------------------------------------------------------------------
(* Identifier codec on its own: every string over a small alphabet *)

\* Characters of the strings decoded: a digit, a letter in both cases, a
\* non-hex letter and a blank.
CodecChars == {"1", "a", "A", "g", " "}

CodecStrings ==
    UNION { [1..n -> CodecChars] : n \in 0..(IdLen + 1) }

InitCodec ==
    /\ product = <<>>
    /\ nextId = 0
    /\ last = NoRequest
    /\ written = <<>>
    /\ codec \in { [CodecIdle EXCEPT !.s = s] : s \in CodecStrings }
    /\ env = NoEnv
    /\ pay = NoPayment

\* decode: _oid(s)
Decode ==
    /\ ~codec.done
    /\ codec' = [codec EXCEPT !.done = TRUE, !.ok = _oid(codec.s).ok,
                              !.oid = _oid(codec.s).oid]
    /\ UNCHANGED <<product, nextId, last, written, env, pay>>

\* encode: str(oid), as _doc_with_id renders the "_id" of a document
Encode ==
    /\ codec.done /\ codec.ok /\ codec.str = <<>>
    /\ codec' = [codec EXCEPT !.str = _doc_with_id(("_id" :> codec.oid))["id"]]
    /\ UNCHANGED <<product, nextId, last, written, env, pay>>

NextCodec ==
    \/ Decode
    \/ Encode

SpecCodec == InitCodec /\ [][NextCodec]_vars

----------------------------------------------------------------------------
(* Payments *)

\* `if not key`: os.getenv gave None or the empty string.
NotSet(key) == key = None \/ key = ""

lower(currency) == IF currency = "NGN" THEN "ngn" ELSE currency

\* What the remote provider does with a call: the Stripe SDK returns an
\* intent or raises (an API error with the provider's HTTP status, or a
\* connection error); requests.post returns a response or raises (the 20 s
\* timeout, a connection error).
StripeOutcomes ==
    { [kind |-> "return", status |-> 200, message |-> "pi_secret"],
      [kind |-> "raise", status |-> 402, message |-> "Your card was declined."],
      [kind |-> "raise", status |-> 0, message |-> "APIConnectionError"] }

PaystackOutcomes ==
    { [kind |-> "return", status |-> 200, message |-> "https://checkout.paystack.com/x"],
      [kind |-> "return", status |-> 400, message |-> "Invalid amount"],
      [kind |-> "return", status |-> 401, message |-> "Invalid key"],
      [kind |-> "raise", status |-> 0, message |-> "Timeout"] }

Failure(outcome) == outcome.kind = "raise" \/ outcome.status >= 400

\* Result of a payment handler: kind "ok" is a returned body, "http_error"
\* an HTTPException(status, detail), "unhandled" an exception that leaves
\* the handler (the server answers 500 Internal Server Error).
PayResult(contacted, sent, kind, status, body) ==
    [contacted |-> contacted, sent |-> sent, kind |-> kind, status |-> status,
     body |-> body]

\* Variant: the credential test inverted.
create_stripe_intent_inverted(e, payload, outcome) ==
    IF ~NotSet(e.stripe_key)
    THEN PayResult(FALSE, <<>>, "ok", 200,
                   [clientSecret |-> "mock_client_secret", mock |-> TRUE])
    ELSE IF ~e.stripe_installed
    THEN PayResult(FALSE, <<>>, "http_error", 500,
                   "Stripe package not installed on server")
    ELSE LET sent == [amount |-> payload.amount * 100,
                      currency |-> lower(payload.currency)]
         IN  IF outcome.kind = "raise"
             THEN PayResult(TRUE, sent, "unhandled", 500, "Internal Server Error")
             ELSE PayResult(TRUE, sent, "ok", 200, [clientSecret |-> outcome.message])

\* POST /payments/stripe-intent
create_stripe_intent(e, payload, outcome) ==
    IF NotSet(e.stripe_key)
    THEN PayResult(FALSE, <<>>, "ok", 200,
                   [clientSecret |-> "mock_client_secret", mock |-> TRUE])
    ELSE IF ~e.stripe_installed
    THEN PayResult(FALSE, <<>>, "http_error", 500,
                   "Stripe package not installed on server")
    ELSE LET sent == [amount |-> payload.amount * 100,
                      currency |-> lower(payload.currency)]
         IN  IF outcome.kind = "raise"
             THEN PayResult(TRUE, sent, "unhandled", 500, "Internal Server Error")
             ELSE PayResult(TRUE, sent, "ok", 200, [clientSecret |-> outcome.message])

\* POST /payments/paystack-init
create_paystack_transaction(e, payload, outcome) ==
    IF NotSet(e.paystack_key)
    THEN PayResult(FALSE, <<>>, "ok", 200,
                   [authorization_url |-> "https://paystack.mock/checkout",
                    reference |-> "mock_ref", mock |-> TRUE])
    ELSE LET sent == [email |-> payload.email, amount |-> payload.amount * 100,
                      currency |-> payload.currency]
         IN  IF outcome.kind = "raise"
             THEN PayResult(TRUE, sent, "unhandled", 500, "Internal Server Error")
             ELSE IF outcome.status >= 400
             THEN PayResult(TRUE, sent, "http_error", outcome.status, outcome.message)
             ELSE PayResult(TRUE, sent, "ok", 200,
                            [authorization_url |-> outcome.message,
                             reference |-> "ref"])

Amounts == {0, 10}
Currencies == {"NGN", "usd"}
Keys == {None, "", "sk_live"}

InitPay ==
    /\ product = <<>>
    /\ nextId = 0
    /\ last = NoRequest
    /\ written = <<>>
    /\ codec = CodecIdle
    /\ env \in [stripe_key : Keys, paystack_key : Keys, stripe_installed : BOOLEAN]
    /\ pay = NoPayment

StripeIntent ==
    \E amount \in Amounts, currency \in Currencies, outcome \in StripeOutcomes :
        LET r == create_stripe_intent(env, [amount |-> amount, currency |-> currency],
                                      outcome)
        IN  /\ pay' = [op |-> "stripe-intent", amount |-> amount,
                       contacted |-> r.contacted, sent |-> r.sent,
                       outcome |-> IF r.contacted THEN outcome ELSE <<>>,
                       kind |-> r.kind, status |-> r.status, body |-> r.body]
            /\ UNCHANGED <<product, nextId, last, written, codec, env>>

PaystackInit ==
    \E amount \in Amounts, currency \in Currencies, outcome \in PaystackOutcomes :
        LET r == create_paystack_transaction(
                     env, [email |-> "a@b.co", amount |-> amount, currency |-> currency],
                     outcome)
        IN  /\ pay' = [op |-> "paystack-init", amount |-> amount,
                       contacted |-> r.contacted, sent |-> r.sent,
                       outcome |-> IF r.contacted THEN outcome ELSE <<>>,
                       kind |-> r.kind, status |-> r.status, body |-> r.body]
            /\ UNCHANGED <<product, nextId, last, written, codec, env>>

NextPay ==
    \/ StripeIntent
    \/ PaystackInit

SpecPay == InitPay /\ [][NextPay]_vars

----------------------------------------------------------------------------
(* Properties *)

\* A valid identifier string: IdLen hexadecimal digits of either case.
WellFormed(s) == Len(s) = IdLen /\ \A i \in 1..Len(s) : IsHexChar(s[i])

LowerCase(s) ==
    [i \in 1..Len(s) |->
        IF \E v \in 1..16 : UpperDigits[v] = s[i]
        THEN HexDigits[CHOOSE v \in 1..16 : UpperDigits[v] = s[i]]
        ELSE s[i]]

Has(body, k, default) == IF k \in DOMAIN body THEN body[k] ELSE default

\* The fields of a posted body with the schema defaults filled in.
Expected(body) ==
    [title |-> body["title"], price |-> body["price"], category |-> body["category"],
     description |-> Has(body, "description", None),
     subcategory |-> Has(body, "subcategory", None),
     images |-> Has(body, "images", <<>>),
     in_stock |-> Has(body, "in_stock", TRUE),
     featured |-> Has(body, "featured", FALSE),
     tags |-> Has(body, "tags", <<>>)]

\* C1: create(p) answers with nothing but a fresh IdLen-digit hex id that
\* names exactly one stored document, and a get of that id, while the
\* document has not been updated or deleted, answers 200 with p's fields,
\* the schema defaults for the omitted ones, and the one added field id; the
\* native "_id" is not in the output.
C1_CreateThenGet ==
    /\ (last.op = "create" /\ last.status = 200) =>
          /\ DOMAIN last.body = {"id"}
          /\ WellFormed(last.body.id)
          /\ Cardinality({i \in 1..Len(product) :
                            ObjectIdStr(product[i]["_id"]) = last.body.id}) = 1
          /\ \E k \in DOMAIN written :
                written[k].by = "create" /\ written[k].id = last.body.id
    /\ \A k \in DOMAIN written :
          (written[k].by = "create" /\ last.op = "get" /\ last.arg = written[k].id) =>
              /\ last.status = 200
              /\ last.body = ("id" :> written[k].id) @@ Expected(written[k].body)
              /\ DOMAIN last.body = ProductFields \cup {"id"}

\* C1 witness: a get answered for a document created from the body that
\* leaves every optional field out.
C1_Witness ==
    \E k \in DOMAIN written :
        /\ written[k].by = "create"
        /\ DOMAIN written[k].body = {"title", "price", "category"}
        /\ last.op = "get" /\ last.arg = written[k].id /\ last.status = 200
        /\ last.body["in_stock"] = TRUE /\ last.body["featured"] = FALSE
        /\ last.body["images"] = <<>> /\ last.body["tags"] = <<>>

\* C2: a get, update or delete with a malformed identifier string (wrong
\* length or a non-hex character) is answered 400 (422 when the body of the
\* update is itself invalid) and issues no store call.
C2_MalformedRejected ==
    (last.op \in {"get", "update", "delete"} /\ ~WellFormed(last.arg)) =>
        /\ last.status = 400 \/ (last.op = "update" /\ last.status = 422)
        /\ last.calls = <<>>

\* C3: a get, update or delete of a well-formed identifier that no stored
\* document has is answered 404 and leaves the collection as it was.
C3_AbsentIsNotFound ==
    [][ ( /\ last'.op \in {"get", "update", "delete"}
          /\ last'.status # 422
          /\ WellFormed(last'.arg)
          /\ _oid(last'.arg).oid \notin Ids(product) )
        => (last'.status = 404 /\ product' = product) ]_vars

\* C3 witness: an update of an absent well-formed id answered 404 while the
\* collection holds documents.
C3_Witness ==
    /\ last.op = "update" /\ last.status = 404
    /\ WellFormed(last.arg)
    /\ _oid(last.arg).oid \notin Ids(product)
    /\ Len(product) > 0

\* C4: a delete of an existing id is answered 200 {deleted: true} and removes
\* the document; the same delete repeated right after it is answered 404,
\* the document is gone and a get of the id is answered 404.
C4_DeleteTwice ==
    /\ [][ ( /\ last'.op = "delete"
             /\ _oid(last'.arg).ok
             /\ _oid(last'.arg).oid \in Ids(product) )
           => ( /\ last'.status = 200
                /\ last'.body = [deleted |-> TRUE]
                /\ _oid(last'.arg).oid \notin Ids(product') ) ]_vars
    /\ []( (last.op = "delete" /\ last.again)
           => ( /\ last.status = 404
                /\ _oid(last.arg).oid \notin Ids(product)
                /\ get_product(product, last.arg, FALSE).status = 404 ) )

\* C4 witness: the second of two consecutive deletes of one id, the first
\* of which succeeded.
C4_Witness ==
    last.op = "delete" /\ last.again /\ last.status = 404 /\ WellFormed(last.arg)

\* C5: list returns exactly the stored products that equal every supplied
\* parameter, category (the empty string included) and featured.
C5_ListFilters ==
    last.op = "list" =>
        LET sel == SelectSeq(product, LAMBDA d :
                       /\ "category" \in DOMAIN last.params
                             => d["category"] = last.params["category"]
                       /\ "featured" \in DOMAIN last.params
                             => d["featured"] = last.params["featured"])
        IN  /\ last.status = 200
            /\ last.body = [i \in 1..Len(sel) |->
                              ("id" :> ObjectIdStr(sel[i]["_id"]))
                              @@ [k \in ProductFields |-> sel[i][k]]]

\* C6: a successful update(id, r) leaves the sequence of identifiers and
\* every other document as they were and makes the document's fields r's
\* fields, defaults for the omitted ones; a get of the id, while the
\* document is not written again, answers r's fields under the id the
\* document was created with.
C6_UpdateReplaces ==
    /\ [][ (last'.op = "update" /\ last'.status = 200)
           => LET k == _oid(last'.arg).oid
              IN  /\ Len(product') = Len(product)
                  /\ \A i \in 1..Len(product) :
                        /\ product'[i]["_id"] = product[i]["_id"]
                        /\ product[i]["_id"] # k => product'[i] = product[i]
                        /\ product[i]["_id"] = k
                              => product'[i] = ("_id" :> k) @@ Expected(written'[k].body)
                  /\ k \in Ids(product) ]_vars
    /\ [](\A k \in DOMAIN written :
            (written[k].by = "update" /\ last.op = "get" /\ last.arg = written[k].id)
               => /\ last.status = 200
                  /\ last.body = ("id" :> written[k].id) @@ Expected(written[k].body))

\* C6 witness: a get of a document that was created featured and out of
\* stock and then updated with a body that leaves both fields out, while
\* another document is stored.
C6_Witness ==
    \E k \in DOMAIN written :
        /\ written[k].by = "update"
        /\ DOMAIN written[k].body = {"title", "price", "category"}
        /\ last.op = "get" /\ last.arg = written[k].id /\ last.status = 200
        /\ last.body["featured"] = FALSE /\ last.body["in_stock"] = TRUE
        /\ Len(product) > 1

\* C10: whatever the order of the requests, get and list leave the store
\* alone, update keeps the sequence of identifiers, and the set of stored
\* identifiers changes only by a create that adds one identifier never
\* generated before or by a delete answered 200 that removes one; stored
\* identifiers are pairwise distinct.
C10_IdsEvolve ==
    /\ [][ /\ last'.op \in {"get", "list"} => product' = product
           /\ last'.op = "update" =>
                 [i \in 1..Len(product') |-> product'[i]["_id"]]
                    = [i \in 1..Len(product) |-> product[i]["_id"]]
           /\ Ids(product') # Ids(product) =>
                 \/ /\ last'.op = "create" /\ last'.status = 200
                    /\ \E k \in Ids(product') :
                          /\ k \notin {GenId(j) : j \in 1..nextId}
                          /\ k \notin Ids(product)
                          /\ Ids(product') = Ids(product) \cup {k}
                 \/ /\ last'.op = "delete" /\ last'.status = 200
                    /\ \E k \in Ids(product) : Ids(product') = Ids(product) \ {k}
         ]_vars
    /\ [](Cardinality(Ids(product)) = Len(product))

\* C10 witness: an update of an identifier whose delete succeeded earlier,
\* answered 404 with the document still gone, other documents stored.
C10_Witness ==
    /\ last.op = "update" /\ last.status = 404
    /\ _oid(last.arg).oid \in {GenId(j) : j \in 1..nextId}
    /\ _oid(last.arg).oid \notin Ids(product)
    /\ Len(product) > 0

\* C7: for every valid identifier string s (IdLen hex digits of either
\* case), encode(decode(s)) = s.
C7_RoundTripExact ==
    (codec.done /\ codec.ok /\ WellFormed(codec.s) /\ codec.str # <<>>)
        => codec.str = codec.s

\* C7, amended: for every valid identifier string s, encode(decode(s)) is s
\* with its letters in lower case, which decodes to the same identifier; it
\* is s itself exactly when s has no upper-case digit.
C7_RoundTripLower ==
    (codec.done /\ codec.ok /\ WellFormed(codec.s) /\ codec.str # <<>>)
        => /\ codec.str = LowerCase(codec.s)
           /\ _oid(codec.str).ok /\ _oid(codec.str).oid = codec.oid
           /\ codec.str = codec.s
                 <=> \A i \in 1..Len(codec.s) :
                        codec.s[i] \notin {"A", "B", "C", "D", "E", "F"}

\* C7 witness: a valid string with an upper-case digit, decoded and encoded.
C7_Witness ==
    /\ codec.done /\ codec.ok /\ WellFormed(codec.s) /\ codec.str # <<>>
    /\ \E i \in 1..Len(codec.s) : codec.s[i] = "A"
    /\ \E i \in 1..Len(codec.s) : codec.s[i] = "1"

\* C8: with a credential configured, every failure of the remote call (the
\* provider answers a status >= 400, the SDK raises, the wait times out)
\* reaches the caller as an error with the provider's status and message.
C8_ProviderFailureResurfaced ==
    (pay.op # "none" /\ pay.contacted /\ Failure(pay.outcome))
        => /\ pay.kind = "http_error"
           /\ pay.status = pay.outcome.status
           /\ pay.body = pay.outcome.message

\* C9: without a provider credential in the environment each payment
\* operation returns its fixed placeholder and does not contact the
\* provider; a result marked mock is returned in that case only.
C9_MockOnlyWithoutCredential ==
    pay.op # "none" =>
        LET key == IF pay.op = "stripe-intent" THEN env.stripe_key
                   ELSE env.paystack_key
            unset == key \in {None, ""}
        IN  /\ unset =>
                  /\ ~pay.contacted
                  /\ pay.kind = "ok"
                  /\ pay.op = "stripe-intent" =>
                        pay.body = [clientSecret |-> "mock_client_secret", mock |-> TRUE]
                  /\ pay.op = "paystack-init" =>
                        pay.body = [authorization_url |-> "https://paystack.mock/checkout",
                                    reference |-> "mock_ref", mock |-> TRUE]
            /\ (pay.kind = "ok" /\ "mock" \in DOMAIN pay.body) => unset

\* C9 witness: a stripe-intent request answered with the placeholder in an
\* environment where the paystack credential is set and the stripe one is not.
C9_Witness ==
    /\ pay.op = "stripe-intent" /\ env.stripe_key = None
    /\ env.paystack_key = "sk_live"
    /\ pay.kind = "ok" /\ pay.body.mock /\ ~pay.contacted /\ pay.amount > 0

====
